---- MODULE Spec2Model ----
(***************************************************************************)
(* A model of the three simulation programs of physics-demos: rope.py,     *)
(* cloth.py and planet-orbit.py.                                           *)
(*                                                                         *)
(* Numbers.  The programs compute in IEEE doubles (numpy).  The model      *)
(* keeps every quantity on an integer grid and rounds the real-valued      *)
(* result of a division or a square root to the nearest grid point, half   *)
(* away from zero (a rounding that commutes with negation, as IEEE's       *)
(* does).  The three non-finite doubles are kept: Inf, -Inf and NaN, with  *)
(* numpy's rules (x/0 is +-Inf, 0/0 is NaN, 0*Inf is NaN, no exception).   *)
(* Sequences are 1-based: the source's index i is the model's i + 1.       *)
(***************************************************************************)
EXTENDS Integers, Sequences, FiniteSets, TLC

(***************************************************************************)
(* Program constants.                                                      *)
(***************************************************************************)
G == 1000
JAKOBSEN_ITERATIONS == 20
FPS == 100
G_PLANET == 10000

\* Rope and cloth positions are held in units of 1/Unit pixel: the grid on
\* which one tick of gravity, G * DT^2, is exactly one unit.
Unit == (FPS * FPS) \div G

\* Masses (and with them forces) are held in units of 1/MassUnit.
MassUnit == 4

(***************************************************************************)
(* Doubles: the finite values are integers, Inf and NaN lie far outside    *)
(* the range the model's finite values reach.                              *)
(***************************************************************************)
Inf == 2^30
NaN == 2^30 + 1

IsNaN(a) == a = NaN
IsInf(a) == a = Inf \/ a = -Inf
IsFin(a) == ~IsNaN(a) /\ ~IsInf(a)

Abs(a) == IF a < 0 THEN -a ELSE a
Sgn(a) == IF a > 0 THEN 1 ELSE IF a < 0 THEN -1 ELSE 0

\* a / b for finite a and b # 0, rounded to the nearest integer.
RoundDiv(a, b) == Sgn(a) * Sgn(b) * ((2 * Abs(a) + Abs(b)) \div (2 * Abs(b)))

FNeg(a) == IF IsNaN(a) THEN NaN ELSE -a

FAdd(a, b) ==
    IF IsNaN(a) \/ IsNaN(b) THEN NaN
    ELSE IF IsInf(a) /\ IsInf(b) THEN (IF a = b THEN a ELSE NaN)
    ELSE IF IsInf(a) THEN a
    ELSE IF IsInf(b) THEN b
    ELSE a + b

FSub(a, b) == FAdd(a, FNeg(b))

FMul(a, b) ==
    IF IsNaN(a) \/ IsNaN(b) THEN NaN
    ELSE IF IsInf(a) \/ IsInf(b)
         THEN (IF a = 0 \/ b = 0 THEN NaN ELSE Sgn(a) * Sgn(b) * Inf)
    ELSE a * b

\* numpy's true division: no ZeroDivisionError, x/0 = +-Inf and 0/0 = NaN.
FDiv(a, b) ==
    IF IsNaN(a) \/ IsNaN(b) THEN NaN
    ELSE IF IsInf(a) THEN (IF IsInf(b) THEN NaN
                           ELSE IF b < 0 THEN -a ELSE a)
    ELSE IF IsInf(b) THEN 0
    ELSE IF b = 0 THEN (IF a = 0 THEN NaN ELSE Sgn(a) * Inf)
    ELSE RoundDiv(a, b)

\* s * n / d for finite s, n and d # 0, rounded to the nearest integer; s is
\* split as q * |d| + r so that the intermediate products stay small.
RoundMulDiv(s, n, d) ==
    LET q == Abs(s) \div Abs(d)
        r == Abs(s) % Abs(d)
    IN  Sgn(s) * Sgn(n) * Sgn(d) * (q * Abs(n) + RoundDiv(r * Abs(n), Abs(d)))

\* s * (n / d) with one rounding: the product of a scalar and a ratio.
MulRatio(s, n, d) ==
    IF IsFin(n) /\ IsFin(d) /\ d # 0
    THEN (IF IsFin(s) THEN RoundMulDiv(s, n, d) ELSE FMul(s, Sgn(n) * Sgn(d)))
    ELSE FMul(s, FDiv(n, d))

\* The integer nearest to the square root of n >= 0.
RECURSIVE SqrtIter(_, _)
SqrtIter(n, x) ==
    LET y == (x + n \div x) \div 2
    IN  IF y >= x THEN x ELSE SqrtIter(n, y)

ISqrt(n) ==
    IF n = 0 THEN 0
    ELSE LET s == SqrtIter(n, n)
         IN  IF n - s * s > s THEN s + 1 ELSE s

\* x ** 0.5
FSqrt(a) ==
    IF IsNaN(a) THEN NaN
    ELSE IF a = Inf THEN Inf
    ELSE IF a < 0 THEN NaN
    ELSE ISqrt(a)

\* Python's a < b on doubles: false as soon as a NaN is involved.
FLess(a, b) == ~IsNaN(a) /\ ~IsNaN(b) /\ a < b

(***************************************************************************)
(* 2-D vectors (numpy arrays of two doubles).                              *)
(***************************************************************************)
vec(x, y) == <<x, y>>

VAdd(a, b) == <<FAdd(a[1], b[1]), FAdd(a[2], b[2])>>
VSub(a, b) == <<FSub(a[1], b[1]), FSub(a[2], b[2])>>
VScale(s, a) == <<FMul(s, a[1]), FMul(s, a[2])>>
VDiv(a, d) == <<FDiv(a[1], d), FDiv(a[2], d)>>
\* s * (a / d), componentwise
VMulRatio(s, a, d) == <<MulRatio(s, a[1], d), MulRatio(s, a[2], d)>>
Dot(a, b) == FAdd(FMul(a[1], b[1]), FMul(a[2], b[2]))
VFin(a) == IsFin(a[1]) /\ IsFin(a[2])

distance(x1, x2) ==
    LET r == VSub(x2, x1)
    IN  FSqrt(Dot(r, r))

(***************************************************************************)
(* Particle (rope.py and cloth.py hold the same class).                    *)
(***************************************************************************)
Particle(x, r, m) ==
    [m |-> m, r |-> r, x |-> x, xPrev |-> x, f |-> vec(0, 0), fixed |-> FALSE]

\* Particle.update: a = f / m; x' = 2x - xPrev + a * DT^2; f = 0.
\* a is in pixels/s^2, so a * DT^2 is a * Unit / FPS^2 position units.
ParticleUpdate(p) ==
    LET a == VDiv(p.f, p.m)
        step == VMulRatio(Unit, a, FPS * FPS)
    IN  [p EXCEPT !.x = VAdd(VSub(VScale(2, p.x), p.xPrev), step),
                  !.xPrev = p.x,
                  !.f = vec(0, 0)]

\* Particle.add_gravity: f += m * G * (0, 1)
ParticleAddGravity(p) ==
    LET gVec == VScale(FMul(p.m, G), vec(0, 1))
    IN  [p EXCEPT !.f = VAdd(p.f, gVec)]

\* k = 1 - (1 - stiffness) ** JAKOBSEN_ITERATIONS
Stiffness_k(stiffness) == 1 - (1 - stiffness) ^ JAKOBSEN_ITERATIONS

\* (k / m) * delta, with m in units of 1/MassUnit
Correction(k, m, delta) == MulRatio(delta, k * MassUnit, m)

(***************************************************************************)
(* Rope (rope.py).  A rope is [particles, gap, stiffness].                 *)
(***************************************************************************)
\* Rope.__init__: no validation of num_particles; the divisions by
\* length and by num_particles - 1 are numpy divisions and raise nothing.
RopeInit(start, end, num_particles, r, m, stiffness) ==
    LET length == distance(start, end)
        stride == VSub(end, start)          \* unitStride = stride / length
        gap == FDiv(length, num_particles - 1)
        pos(i) == VAdd(start, VMulRatio(FMul(i, gap), stride, length))
    IN  [particles |-> [i \in 1..num_particles |-> Particle(pos(i - 1), r, m)],
         gap |-> gap,
         stiffness |-> stiffness]

\* Rope.closest: index of the first particle at minimal distance; 0 stands
\* for None (no particle).
RECURSIVE RopeClosestFrom(_, _, _, _, _)
RopeClosestFrom(ps, x, i, minDist, minI) ==
    IF i > Len(ps) THEN minI
    ELSE LET dist == distance(x, ps[i].x)
         IN  IF minI = 0 \/ FLess(dist, minDist)
             THEN RopeClosestFrom(ps, x, i + 1, dist, i)
             ELSE RopeClosestFrom(ps, x, i + 1, minDist, minI)

RopeClosest(ps, x) == RopeClosestFrom(ps, x, 1, 0, 0)

\* Rope.setFixed
RopeSetFixed(ps, i) ==
    IF i < 1 \/ i > Len(ps) THEN ps
    ELSE [ps EXCEPT ![i].fixed = ~ps[i].fixed]

\* Rope.setPosition
RopeSetPosition(ps, i, pos) ==
    IF i < 1 \/ i > Len(ps) THEN ps
    ELSE [ps EXCEPT ![i].x = pos]

\* Rope.add_gravity: pinned particles are skipped
RopeAddGravity(ps) ==
    [i \in 1..Len(ps) |-> IF ~ps[i].fixed THEN ParticleAddGravity(ps[i]) ELSE ps[i]]

\* Rope.update without its test of the fixed flag
RopeUpdateAll(ps) ==
    [i \in 1..Len(ps) |-> ParticleUpdate(ps[i])]

\* Rope.update: pinned particles are skipped
RopeUpdate(ps) ==
    [i \in 1..Len(ps) |-> IF ~ps[i].fixed THEN ParticleUpdate(ps[i]) ELSE ps[i]]

\* The pair (v, w) with the correction applied away from the rest length
RopeRelaxApart(v, w, gap, stiffness) ==
    IF v.fixed /\ w.fixed THEN <<v, w>>
    ELSE LET r == VSub(w.x, v.x)
             r_mag == FSqrt(Dot(r, r))
             delta == FSub(r_mag, gap)
             k == Stiffness_k(stiffness)
         IN  IF v.fixed
             THEN <<v, [w EXCEPT !.x = VAdd(w.x, VMulRatio(Correction(k, w.m, delta), r, r_mag))]>>
             ELSE IF w.fixed
             THEN <<[v EXCEPT !.x = VSub(v.x, VMulRatio(Correction(k, v.m, delta), r, r_mag))], w>>
             ELSE <<[v EXCEPT !.x = VSub(v.x, VMulRatio(Correction(k, v.m, FDiv(delta, 2)), r, r_mag))],
                    [w EXCEPT !.x = VAdd(w.x, VMulRatio(Correction(k, w.m, FDiv(delta, 2)), r, r_mag))]>>

\* The body of Rope.jakobsen's inner loop for the pair (v, w): <<v', w'>>.
RopeRelax(v, w, gap, stiffness) ==
    IF v.fixed /\ w.fixed THEN <<v, w>>
    ELSE LET r == VSub(w.x, v.x)
             r_mag == FSqrt(Dot(r, r))
             delta == FSub(r_mag, gap)
             k == Stiffness_k(stiffness)
         IN  IF v.fixed
             THEN <<v, [w EXCEPT !.x = VSub(w.x, VMulRatio(Correction(k, w.m, delta), r, r_mag))]>>
             ELSE IF w.fixed
             THEN <<[v EXCEPT !.x = VAdd(v.x, VMulRatio(Correction(k, v.m, delta), r, r_mag))], w>>
             ELSE <<[v EXCEPT !.x = VAdd(v.x, VMulRatio(Correction(k, v.m, FDiv(delta, 2)), r, r_mag))],
                    [w EXCEPT !.x = VSub(w.x, VMulRatio(Correction(k, w.m, FDiv(delta, 2)), r, r_mag))]>>

\* One pass of Rope.jakobsen: the pairs (i, i+1) in order, each seeing the
\* positions the earlier ones left.
RECURSIVE RopePassFrom(_, _, _, _)
RopePassFrom(ps, i, gap, stiffness) ==
    IF i >= Len(ps) THEN ps
    ELSE LET vw == RopeRelax(ps[i], ps[i + 1], gap, stiffness)
         IN  RopePassFrom([ps EXCEPT ![i] = vw[1], ![i + 1] = vw[2]], i + 1, gap, stiffness)

RopePass(ps, gap, stiffness) == RopePassFrom(ps, 1, gap, stiffness)

\* Rope.jakobsen: JAKOBSEN_ITERATIONS passes
RECURSIVE RopeJakobsenFrom(_, _, _, _)
RopeJakobsenFrom(ps, n, gap, stiffness) ==
    IF n = 0 \/ Len(ps) < 2 THEN ps     \* range(len - 1) is empty below 2 particles
    ELSE LET next == RopePass(ps, gap, stiffness)
         IN  IF next = ps THEN ps      \* a pass that moves nothing: so do the rest
             ELSE RopeJakobsenFrom(next, n - 1, gap, stiffness)

RopeJakobsen(ps, gap, stiffness) ==
    RopeJakobsenFrom(ps, JAKOBSEN_ITERATIONS, gap, stiffness)

\* onStep of rope.py, the rope being present
RopeStep(ps, gap, stiffness) ==
    RopeJakobsen(RopeUpdate(RopeAddGravity(ps)), gap, stiffness)

(***************************************************************************)
(* Cloth (cloth.py).  particles[i][j] is the source's particles[i-1][j-1]. *)
(***************************************************************************)
\* Cloth.__init__: the grid grows from start by |end - start|, whatever the
\* side of start that end lies on; num_particles is not validated.
ClothInit(start, end, num_particles, r, m, stiffness) ==
    LET startX == start[1]
        startY == start[2]
        endX == end[1]
        endY == end[2]
        xLength == Abs(endX - startX)
        yLength == Abs(endY - startY)
        xGap == FDiv(xLength, num_particles - 1)
        yGap == FDiv(yLength, num_particles - 1)
    IN  [particles |->
            [i \in 1..num_particles |->
                [j \in 1..num_particles |->
                    Particle(vec(FAdd(startX, FMul(i - 1, xGap)),
                                 FAdd(startY, FMul(j - 1, yGap))), r, m)]],
         xGap |-> xGap,
         yGap |-> yGap,
         stiffness |-> stiffness]

\* rows = len(self.particles); cols = len(self.particles[0]) raises
\* IndexError on an empty grid.
ClothRows(g) == Len(g)
ClothCols(g) == Len(g[1])
ClothIndexError(g) == Len(g) = 0

\* Cloth.closest: the first (row-major) particle at minimal distance
RECURSIVE ClothClosestFrom(_, _, _, _, _)
ClothClosestFrom(g, x, n, minDist, minPos) ==
    IF n >= ClothRows(g) * ClothCols(g) THEN minPos
    ELSE LET i == (n \div ClothCols(g)) + 1
             j == (n % ClothCols(g)) + 1
             dist == distance(x, g[i][j].x)
         IN  IF minPos = <<>> \/ FLess(dist, minDist)
             THEN ClothClosestFrom(g, x, n + 1, dist, <<i, j>>)
             ELSE ClothClosestFrom(g, x, n + 1, minDist, minPos)

ClothClosest(g, x) == ClothClosestFrom(g, x, 0, 0, <<>>)

\* Cloth.setFixed
ClothSetFixed(g, i, j) ==
    IF i < 1 \/ i > Len(g) THEN g
    ELSE IF j < 1 \/ j > Len(g[1]) THEN g
    ELSE [g EXCEPT ![i][j].fixed = ~g[i][j].fixed]

\* Cloth.setPosition
ClothSetPosition(g, i, j, pos) ==
    IF i < 1 \/ i > Len(g) THEN g
    ELSE IF j < 1 \/ j > Len(g[1]) THEN g
    ELSE [g EXCEPT ![i][j].x = pos]

\* Cloth.add_gravity: every particle, pinned or not
ClothAddGravity(g) ==
    [i \in 1..ClothRows(g) |-> [j \in 1..ClothCols(g) |-> ParticleAddGravity(g[i][j])]]

\* Cloth.update: pinned particles are skipped
ClothUpdate(g) ==
    [i \in 1..ClothRows(g) |->
        [j \in 1..ClothCols(g) |->
            IF ~g[i][j].fixed THEN ParticleUpdate(g[i][j]) ELSE g[i][j]]]

\* Cloth.relax_constraint for the pair (v, w): <<v', w'>>
relax_constraint(v, w, gap, stiffness) ==
    IF v.fixed /\ w.fixed THEN <<v, w>>
    ELSE LET r == VSub(w.x, v.x)
             r_mag == FSqrt(Dot(r, r))
             delta == FSub(r_mag, gap)
             k == Stiffness_k(stiffness)
         IN  IF v.fixed
             THEN <<v, [w EXCEPT !.x = VSub(w.x, VMulRatio(Correction(k, w.m, delta), r, r_mag))]>>
             ELSE IF w.fixed
             THEN <<[v EXCEPT !.x = VAdd(v.x, VMulRatio(Correction(k, v.m, delta), r, r_mag))], w>>
             ELSE <<[v EXCEPT !.x = VAdd(v.x, VMulRatio(Correction(k, v.m, FDiv(delta, 2)), r, r_mag))],
                    [w EXCEPT !.x = VSub(w.x, VMulRatio(Correction(k, w.m, FDiv(delta, 2)), r, r_mag))]>>

\* The rest lengths Cloth.jakobsen hands to relax_constraint: yGap for the
\* pairs (i, j)-(i+1, j) of its loop headed "vertical", xGap for the pairs
\* (i, j)-(i, j+1) of its loop headed "horizontal".
ClothVerticalGap(xGap, yGap) == yGap
ClothHorizontalGap(xGap, yGap) == xGap

\* The "vertical" loop: pairs (i, j)-(i+1, j) for i, then j; n counts them.
RECURSIVE ClothVerticalFrom(_, _, _, _)
ClothVerticalFrom(g, n, gap, stiffness) ==
    IF n >= (ClothRows(g) - 1) * ClothCols(g) THEN g
    ELSE LET i == (n \div ClothCols(g)) + 1
             j == (n % ClothCols(g)) + 1
             vw == relax_constraint(g[i][j], g[i + 1][j], gap, stiffness)
         IN  ClothVerticalFrom([g EXCEPT ![i][j] = vw[1], ![i + 1][j] = vw[2]],
                               n + 1, gap, stiffness)

\* The "horizontal" loop: pairs (i, j)-(i, j+1) for i, then j.
RECURSIVE ClothHorizontalFrom(_, _, _, _)
ClothHorizontalFrom(g, n, gap, stiffness) ==
    IF n >= ClothRows(g) * (ClothCols(g) - 1) THEN g
    ELSE LET i == (n \div (ClothCols(g) - 1)) + 1
             j == (n % (ClothCols(g) - 1)) + 1
             vw == relax_constraint(g[i][j], g[i][j + 1], gap, stiffness)
         IN  ClothHorizontalFrom([g EXCEPT ![i][j] = vw[1], ![i][j + 1] = vw[2]],
                                 n + 1, gap, stiffness)

\* One pass of Cloth.jakobsen
ClothPass(g, xGap, yGap, stiffness) ==
    ClothHorizontalFrom(
        ClothVerticalFrom(g, 0, ClothVerticalGap(xGap, yGap), stiffness),
        0, ClothHorizontalGap(xGap, yGap), stiffness)

\* Cloth.jakobsen: JAKOBSEN_ITERATIONS passes
RECURSIVE ClothJakobsenFrom(_, _, _, _, _)
ClothJakobsenFrom(g, n, xGap, yGap, stiffness) ==
    IF n = 0 \/ ClothRows(g) < 2 THEN g     \* both loops are empty on a 1 x 1 grid
    ELSE LET next == ClothPass(g, xGap, yGap, stiffness)
         IN  IF next = g THEN g        \* a pass that moves nothing: so do the rest
             ELSE ClothJakobsenFrom(next, n - 1, xGap, yGap, stiffness)

ClothJakobsen(g, xGap, yGap, stiffness) ==
    ClothJakobsenFrom(g, JAKOBSEN_ITERATIONS, xGap, yGap, stiffness)

\* onStep of cloth.py, the cloth being present and not empty
ClothStep(g, xGap, yGap, stiffness) ==
    ClothJakobsen(ClothUpdate(ClothAddGravity(g)), xGap, yGap, stiffness)

(***************************************************************************)
(* Planet (planet-orbit.py).  Grids: a position is held in 1/PosUnit       *)
(* pixel, a velocity in 1/VelUnit pixel/s, an acceleration in 1/AccUnit    *)
(* pixel/s^2, chosen so that a * DT, v * DT and a * DT^2 fall on the grid  *)
(* of their result.  Masses and forces are in the program's own units.     *)
(***************************************************************************)
PLANET_DENSITY_INV == 10      \* PLANET_DENSITY = 0.1
VELOCITY_NORM_INV == 4        \* VELOCITY_NORM = 0.25

AccUnit == 1
VelUnit == AccUnit * FPS
PosUnit == VelUnit * FPS

\* The grid (per pixel) on which the separation of two planets is read
\* when their attraction is computed.
DistUnit == 10

\* q * DT for an acceleration (to a velocity) and a velocity (to a position)
AccTimesDT(a) == VMulRatio(VelUnit, a, AccUnit * FPS)
VelTimesDT(v) == VMulRatio(PosUnit, v, VelUnit * FPS)
\* a * DT^2, a position
AccTimesDT2(a) == VMulRatio(PosUnit, a, AccUnit * FPS * FPS)
\* d / DT for a displacement d, a velocity
PosOverDT(d) == VMulRatio(VelUnit * FPS, d, PosUnit)

\* Planet.__init__
Planet(x, v, m, r) ==
    [m |-> m, r |-> r, x |-> x, f |-> vec(0, 0), v |-> v,
     xPrev |-> VSub(x, VelTimesDT(v))]

\* f / m, an acceleration
PlanetAcc(p) == VMulRatio(AccUnit, p.f, p.m)

\* Planet.euler_update
euler_update(p) ==
    LET a == PlanetAcc(p)
        v == VAdd(p.v, AccTimesDT(a))
    IN  [p EXCEPT !.v = v,
                  !.xPrev = p.x,
                  !.x = VAdd(p.x, VelTimesDT(v)),
                  !.f = vec(0, 0)]

\* Planet.verlet_update
verlet_update(p) ==
    LET a == PlanetAcc(p)
        x == VAdd(VSub(VScale(2, p.x), p.xPrev), AccTimesDT2(a))
    IN  [p EXCEPT !.x = x,
                  !.xPrev = p.x,
                  !.v = PosOverDT(VSub(x, p.x)),
                  !.f = vec(0, 0)]

\* f_g * d_hat of Planet.add_gravity(p1, p2): d = p2.x - p1.x read on the
\* DistUnit grid, d_squared = d . d in pixels^2, d_hat = d / d_squared ** 0.5,
\* f_g = G * p1.m * p2.m / d_squared.
GravityForce(p1, p2) ==
    LET d == VMulRatio(DistUnit, VSub(p2.x, p1.x), PosUnit)
        dd == Dot(d, d)
        d_squared == MulRatio(1, dd, DistUnit * DistUnit)
        f_g == FDiv(G_PLANET * p1.m * p2.m, d_squared)
    IN  VMulRatio(f_g, d, FSqrt(dd))

\* The pair (i, j) with the force added to both planets
add_gravity_both(ps, i, j) ==
    LET fg == GravityForce(ps[i], ps[j])
    IN  [ps EXCEPT ![i].f = VAdd(ps[i].f, fg), ![j].f = VAdd(ps[j].f, fg)]

\* Planet.add_gravity applied to the planets i < j of the list
add_gravity(ps, i, j) ==
    LET fg == GravityForce(ps[i], ps[j])
    IN  [ps EXCEPT ![i].f = VAdd(ps[i].f, fg), ![j].f = VSub(ps[j].f, fg)]

\* The double loop of onStep over the pairs i < j, in the source's order;
\* n runs over the cells (i, j) of the Len x Len table.
RECURSIVE GravityLoopFrom(_, _)
GravityLoopFrom(ps, n) ==
    IF n >= Len(ps) * Len(ps) THEN ps
    ELSE LET i == (n \div Len(ps)) + 1
             j == (n % Len(ps)) + 1
         IN  GravityLoopFrom(IF i < j THEN add_gravity(ps, i, j) ELSE ps, n + 1)

GravityLoop(ps) == GravityLoopFrom(ps, 0)

\* The second loop of onStep
UpdateLoop(ps, eulerMode) ==
    [i \in 1..Len(ps) |-> IF eulerMode THEN euler_update(ps[i]) ELSE verlet_update(ps[i])]

\* onStep of planet-orbit.py
PlanetStep(ps, eulerMode) == UpdateLoop(GravityLoop(ps), eulerMode)

\* demo_config
demo_config ==
    <<Planet(vec(230 * PosUnit, 300 * PosUnit), vec(0, 65 * VelUnit), 250, 30),
      Planet(vec(370 * PosUnit, 300 * PosUnit), vec(0, -65 * VelUnit), 250, 30)>>

\* planetM = PLANET_DENSITY * pi * r^2 of onMousePress, pi taken as 355/113
PlanetMass(r) == RoundDiv(355 * r * r, 113 * PLANET_DENSITY_INV)

\* Total energy of the planets, in mass * pixel^2 / s^2
KineticEnergy(p) ==
    LET vsq == MulRatio(1, Dot(p.v, p.v), VelUnit * VelUnit)
    IN  MulRatio(p.m, vsq, 2)

PotentialEnergy(p1, p2) ==
    LET d == VMulRatio(DistUnit, VSub(p2.x, p1.x), PosUnit)
    IN  FNeg(FMul(FDiv(G_PLANET * p1.m * p2.m, FSqrt(Dot(d, d))), DistUnit))

PairEnergy(ps) ==
    FAdd(FAdd(KineticEnergy(ps[1]), KineticEnergy(ps[2])), PotentialEnergy(ps[1], ps[2]))

(***************************************************************************)
(* Bounds of the model.                                                    *)
(***************************************************************************)
\* num_particles at construction ranges over 0..MaxCount
MaxCount == 2
\* between two resets at most MaxEvents events reach the entities: runs of
\* onStep, and mouse presses and drags on a rope or cloth
MaxEvents == 4
\* at most MaxPlanets planets are created by mouse
MaxPlanets == 2
\* length of the demo run and number of relaxation passes followed
MaxDemoTicks == 1000
MaxPasses == 40
\* Two planets that are not at one point are at least MinSep pixels apart
\* whenever a tick is taken: closer, the DistUnit grid cannot tell their
\* separation from zero.
MinSep == 1

Resolved(p1, p2) ==
    \/ ~VFin(p1.x) \/ ~VFin(p2.x)
    \/ p1.x = p2.x
    \/ LET d == VMulRatio(DistUnit, VSub(p2.x, p1.x), PosUnit)
       IN  Dot(d, d) >= DistUnit * DistUnit * MinSep * MinSep

Resolvable(ps) == \A i, j \in 1..Len(ps) : i < j => Resolved(ps[i], ps[j])

\* Mouse positions (pixels) of rope.py and cloth.py, and of planet-orbit.py
MousePts == {<<0, 0>>, <<4, 2>>}
PlanetPts == {<<230, 300>>, <<370, 300>>}
\* np.random.randint(15, 35) draws from 15..34
Radii == {20}

Px(m) == vec(m[1] * Unit, m[2] * Unit)

(***************************************************************************)
(* State.  app names the program that runs; rope, cloth and newPlanet are  *)
(* <<>> for None and <<value>> otherwise; dragIndex is <<>> for None,      *)
(* <<i>> for a rope index and <<i, j>> for a cloth index.  crashed is set  *)
(* when a handler raises (the application stops).  ticks counts onStep's   *)
(* runs and mouse the mouse events on the entity since the last reset.  twin, lastForces and passes belong to the   *)
(* demo run and the relaxation run below.                                  *)
(***************************************************************************)
VARIABLES app, points, point1, point2, rope, cloth, dragIndex,
          planets, euler, newPlanet, crashed, ticks, mouse, twin, lastForces, passes

vars == <<app, points, point1, point2, rope, cloth, dragIndex,
          planets, euler, newPlanet, crashed, ticks, mouse, twin, lastForces, passes>>


\* reset(app) of rope.py and cloth.py: nothing clicked, no entity;
\* onAppStart of planet-orbit.py: Euler mode, no planet.  app.paused is not
\* held: while it is set onStep returns at once, which is a stuttering step.
Init ==
    /\ app \in {"rope", "cloth", "planet"}
    /\ points = 0
    /\ point1 = <<>>
    /\ point2 = <<>>
    /\ rope = <<>>
    /\ cloth = <<>>
    /\ dragIndex = <<>>
    /\ planets = <<>>
    /\ euler = TRUE
    /\ newPlanet = <<>>
    /\ crashed = FALSE
    /\ ticks = 0
    /\ mouse = 0
    /\ twin = <<>>
    /\ lastForces = <<>>
    /\ passes = 0

(***************************************************************************)
(* rope.py handlers                                                        *)
(***************************************************************************)
RopeApp == app = "rope" /\ ~crashed

\* onKeyPress 'r' of rope.py and cloth.py: reset(app)
KeyR ==
    /\ app \in {"rope", "cloth"} /\ ~crashed
    /\ dragIndex' = <<>>
    /\ rope' = <<>>
    /\ cloth' = <<>>
    /\ points' = 0
    /\ point1' = <<>>
    /\ point2' = <<>>
    /\ ticks' = 0
    /\ mouse' = 0
    /\ UNCHANGED <<app, planets, euler, newPlanet, crashed, twin, lastForces, passes>>

\* onKeyPress 'enter' of rope.py; n is app.ropePoints, which 'up' and
\* 'down' have set to any value
RopeKeyEnter ==
    /\ RopeApp /\ rope = <<>> /\ points = 2
    /\ \E n \in 0..MaxCount :
          rope' = <<RopeInit(point1, point2, n, 5, 5 * MassUnit, 1)>>
    /\ UNCHANGED <<app, points, point1, point2, cloth, dragIndex,
                   planets, euler, newPlanet, crashed, ticks, mouse, twin, lastForces, passes>>

\* onMousePress, button 0
RopeMousePressLeft ==
    /\ RopeApp
    /\ \E m \in MousePts :
          IF points = 0
          THEN /\ point1' = Px(m) /\ points' = 1
               /\ UNCHANGED <<point2, rope, crashed, mouse>>
          ELSE IF points = 1
          THEN /\ point2' = Px(m) /\ points' = 2
               /\ UNCHANGED <<point1, rope, crashed, mouse>>
          ELSE /\ rope # <<>>
               /\ ticks + mouse < MaxEvents /\ mouse' = mouse + 1
               /\ LET closestIndex == RopeClosest(rope[1].particles, Px(m))
                  IN  IF closestIndex = 0
                      THEN crashed' = TRUE /\ UNCHANGED rope   \* setFixed(None): TypeError
                      ELSE /\ rope' = <<[rope[1] EXCEPT !.particles = RopeSetFixed(@, closestIndex)]>>
                           /\ UNCHANGED crashed
               /\ UNCHANGED <<points, point1, point2>>
    /\ UNCHANGED <<app, cloth, dragIndex, planets, euler, newPlanet,
                   ticks, twin, lastForces, passes>>

\* onMousePress, button 2
RopeMousePressRight ==
    /\ RopeApp /\ rope # <<>>
    /\ ticks + mouse < MaxEvents /\ mouse' = mouse + 1
    /\ \E m \in MousePts :
          LET i == RopeClosest(rope[1].particles, Px(m))
          IN  IF i = 0
              THEN crashed' = TRUE /\ UNCHANGED <<rope, dragIndex>>
              ELSE /\ dragIndex' = <<i>>
                   /\ rope' = <<[rope[1] EXCEPT !.particles = RopeSetFixed(@, i)]>>
                   /\ UNCHANGED crashed
    /\ UNCHANGED <<app, points, point1, point2, cloth,
                   planets, euler, newPlanet, ticks, twin, lastForces, passes>>

\* onMouseDrag with button 2 held
RopeMouseDrag ==
    /\ RopeApp /\ rope # <<>> /\ dragIndex # <<>>
    /\ ticks + mouse < MaxEvents /\ mouse' = mouse + 1
    /\ \E m \in MousePts :
          rope' = <<[rope[1] EXCEPT !.particles = RopeSetPosition(@, dragIndex[1], Px(m))]>>
    /\ UNCHANGED <<app, points, point1, point2, cloth, dragIndex,
                   planets, euler, newPlanet, crashed, ticks, twin, lastForces, passes>>

\* onMouseRelease, button 2
RopeMouseRelease ==
    /\ RopeApp /\ rope # <<>> /\ dragIndex # <<>>
    /\ rope' = <<[rope[1] EXCEPT !.particles = RopeSetFixed(@, dragIndex[1])]>>
    /\ dragIndex' = <<>>
    /\ UNCHANGED <<app, points, point1, point2, cloth,
                   planets, euler, newPlanet, crashed, ticks, mouse, twin, lastForces, passes>>

\* onStep of rope.py
RopeOnStep ==
    /\ RopeApp /\ rope # <<>>
    /\ ticks + mouse < MaxEvents
    /\ rope' = <<[rope[1] EXCEPT
                    !.particles = RopeStep(@, rope[1].gap, rope[1].stiffness)]>>
    /\ ticks' = ticks + 1
    /\ UNCHANGED <<app, points, point1, point2, cloth, dragIndex,
                   planets, euler, newPlanet, crashed, mouse, twin, lastForces, passes>>

(***************************************************************************)
(* cloth.py handlers                                                       *)
(***************************************************************************)
ClothApp == app = "cloth" /\ ~crashed

\* onKeyPress 'enter' of cloth.py; n is app.clothPoints
ClothKeyEnter ==
    /\ ClothApp /\ cloth = <<>> /\ points = 2
    /\ \E n \in 0..MaxCount :
          cloth' = <<ClothInit(point1, point2, n, 5, 5 * MassUnit, 1)>>
    /\ UNCHANGED <<app, points, point1, point2, rope, dragIndex,
                   planets, euler, newPlanet, crashed, ticks, mouse, twin, lastForces, passes>>

\* onMousePress, button 0
ClothMousePressLeft ==
    /\ ClothApp
    /\ \E m \in MousePts :
          IF points = 0
          THEN /\ point1' = Px(m) /\ points' = 1
               /\ UNCHANGED <<point2, cloth, crashed, mouse>>
          ELSE IF points = 1
          THEN /\ point2' = Px(m) /\ points' = 2
               /\ UNCHANGED <<point1, cloth, crashed, mouse>>
          ELSE /\ cloth # <<>>
               /\ ticks + mouse < MaxEvents /\ mouse' = mouse + 1
               /\ IF ClothIndexError(cloth[1].particles)
                  THEN crashed' = TRUE /\ UNCHANGED cloth
                  ELSE LET ij == ClothClosest(cloth[1].particles, Px(m))
                       IN  /\ cloth' = <<[cloth[1] EXCEPT
                                            !.particles = ClothSetFixed(@, ij[1], ij[2])]>>
                           /\ UNCHANGED crashed
               /\ UNCHANGED <<points, point1, point2>>
    /\ UNCHANGED <<app, rope, dragIndex, planets, euler, newPlanet,
                   ticks, twin, lastForces, passes>>

\* onMousePress, button 2
ClothMousePressRight ==
    /\ ClothApp /\ cloth # <<>>
    /\ ticks + mouse < MaxEvents /\ mouse' = mouse + 1
    /\ \E m \in MousePts :
          IF ClothIndexError(cloth[1].particles)
          THEN crashed' = TRUE /\ UNCHANGED <<cloth, dragIndex>>
          ELSE LET ij == ClothClosest(cloth[1].particles, Px(m))
               IN  /\ dragIndex' = ij
                   /\ cloth' = <<[cloth[1] EXCEPT
                                    !.particles = ClothSetFixed(@, ij[1], ij[2])]>>
                   /\ UNCHANGED crashed
    /\ UNCHANGED <<app, points, point1, point2, rope,
                   planets, euler, newPlanet, ticks, twin, lastForces, passes>>

\* onMouseDrag with button 2 held
ClothMouseDrag ==
    /\ ClothApp /\ cloth # <<>> /\ dragIndex # <<>>
    /\ ticks + mouse < MaxEvents /\ mouse' = mouse + 1
    /\ \E m \in MousePts :
          cloth' = <<[cloth[1] EXCEPT
                        !.particles = ClothSetPosition(@, dragIndex[1], dragIndex[2], Px(m))]>>
    /\ UNCHANGED <<app, points, point1, point2, rope, dragIndex,
                   planets, euler, newPlanet, crashed, ticks, twin, lastForces, passes>>

\* onMouseRelease, button 2
ClothMouseRelease ==
    /\ ClothApp /\ cloth # <<>> /\ dragIndex # <<>>
    /\ cloth' = <<[cloth[1] EXCEPT
                     !.particles = ClothSetFixed(@, dragIndex[1], dragIndex[2])]>>
    /\ dragIndex' = <<>>
    /\ UNCHANGED <<app, points, point1, point2, rope,
                   planets, euler, newPlanet, crashed, ticks, mouse, twin, lastForces, passes>>

\* onStep of cloth.py; on an empty grid add_gravity raises IndexError
ClothOnStep ==
    /\ ClothApp /\ cloth # <<>>
    /\ ticks + mouse < MaxEvents
    /\ IF ClothIndexError(cloth[1].particles)
       THEN crashed' = TRUE /\ UNCHANGED cloth
       ELSE /\ cloth' = <<[cloth[1] EXCEPT
                             !.particles = ClothStep(@, cloth[1].xGap, cloth[1].yGap,
                                                     cloth[1].stiffness)]>>
            /\ UNCHANGED crashed
    /\ ticks' = ticks + 1
    /\ UNCHANGED <<app, points, point1, point2, rope, dragIndex,
                   planets, euler, newPlanet, mouse, twin, lastForces, passes>>

(***************************************************************************)
(* planet-orbit.py handlers                                                *)
(***************************************************************************)
PlanetApp == app = "planet" /\ ~crashed

\* onMousePress: the first press places the new planet, the second creates it
PlanetMousePress ==
    /\ PlanetApp
    /\ IF newPlanet = <<>>
       THEN /\ \E m \in PlanetPts, r \in Radii :
                  newPlanet' = <<[X |-> m[1], Y |-> m[2], R |-> r,
                                  VelX |-> m[1], VelY |-> m[2]]>>
            /\ UNCHANGED planets
       ELSE /\ Len(planets) < MaxPlanets
            /\ LET n == newPlanet[1]
                   planetX == vec(n.X * PosUnit, n.Y * PosUnit)
                   planetV == VMulRatio(VelUnit, vec(n.VelX - n.X, n.VelY - n.Y),
                                        VELOCITY_NORM_INV)
               IN  planets' = Append(planets, Planet(planetX, planetV, PlanetMass(n.R), n.R))
            /\ newPlanet' = <<>>
    /\ UNCHANGED <<app, points, point1, point2, rope, cloth, dragIndex,
                   euler, crashed, ticks, mouse, twin, lastForces, passes>>

\* onMouseMove
PlanetMouseMove ==
    /\ PlanetApp /\ newPlanet # <<>>
    /\ \E m \in PlanetPts :
          newPlanet' = <<[newPlanet[1] EXCEPT !.VelX = m[1], !.VelY = m[2]]>>
    /\ UNCHANGED <<app, points, point1, point2, rope, cloth, dragIndex,
                   planets, euler, crashed, ticks, mouse, twin, lastForces, passes>>

\* onKeyPress 'm'
KeyM ==
    /\ PlanetApp
    /\ euler' = ~euler
    /\ UNCHANGED <<app, points, point1, point2, rope, cloth, dragIndex,
                   planets, newPlanet, crashed, ticks, mouse, twin, lastForces, passes>>

\* onKeyPress 'r' of planet-orbit.py: reset(app)
PlanetKeyR ==
    /\ PlanetApp
    /\ planets' = <<>>
    /\ newPlanet' = <<>>
    /\ ticks' = 0
    /\ UNCHANGED <<app, points, point1, point2, rope, cloth, dragIndex,
                   euler, crashed, mouse, twin, lastForces, passes>>

\* onKeyPress '1': demo_config(app)
Key1 ==
    /\ PlanetApp
    /\ planets' = demo_config
    /\ UNCHANGED <<app, points, point1, point2, rope, cloth, dragIndex,
                   euler, newPlanet, crashed, ticks, mouse, twin, lastForces, passes>>

\* onStep of planet-orbit.py
PlanetOnStep ==
    /\ PlanetApp
    /\ ticks + mouse < MaxEvents
    /\ Resolvable(planets)
    /\ planets' = PlanetStep(planets, euler)
    /\ ticks' = ticks + 1
    /\ UNCHANGED <<app, points, point1, point2, rope, cloth, dragIndex,
                   euler, newPlanet, crashed, mouse, twin, lastForces, passes>>

Next ==
    \/ KeyR
    \/ RopeKeyEnter
    \/ RopeMousePressLeft
    \/ RopeMousePressRight
    \/ RopeMouseDrag
    \/ RopeMouseRelease
    \/ RopeOnStep
    \/ ClothKeyEnter
    \/ ClothMousePressLeft
    \/ ClothMousePressRight
    \/ ClothMouseDrag
    \/ ClothMouseRelease
    \/ ClothOnStep
    \/ PlanetMousePress
    \/ PlanetMouseMove
    \/ KeyM
    \/ PlanetKeyR
    \/ Key1
    \/ PlanetOnStep

Spec == Init /\ [][Next]_vars

(***************************************************************************)
(* The demo run: demo_config stepped by onStep in Euler mode (planets) and *)
(* by onStep in Verlet mode (twin), tick for tick.  lastForces holds the   *)
(* forces the gravity loop of the last Verlet tick accumulated.            *)
(***************************************************************************)
InitDemo ==
    /\ app = "planet"
    /\ points = 0
    /\ point1 = <<>>
    /\ point2 = <<>>
    /\ rope = <<>>
    /\ cloth = <<>>
    /\ dragIndex = <<>>
    /\ planets = demo_config
    /\ euler = TRUE
    /\ newPlanet = <<>>
    /\ crashed = FALSE
    /\ ticks = 0
    /\ mouse = 0
    /\ twin = demo_config
    /\ lastForces = <<>>
    /\ passes = 0

DemoStep ==
    /\ ticks < MaxDemoTicks
    /\ planets' = PlanetStep(planets, TRUE)
    /\ twin' = PlanetStep(twin, FALSE)
    /\ lastForces' = [i \in 1..Len(twin) |-> GravityLoop(twin)[i].f]
    /\ ticks' = ticks + 1
    /\ UNCHANGED <<app, points, point1, point2, rope, cloth, dragIndex,
                   euler, newPlanet, crashed, mouse, passes>>

SpecDemo == InitDemo /\ [][DemoStep]_vars

(***************************************************************************)
(* The relaxation run: a two-particle rope with one endpoint pinned and    *)
(* the other set at some separation, relaxed pass by pass (the passes of   *)
(* Rope.jakobsen, over as many calls as it takes).                         *)
(***************************************************************************)
\* app.width = app.height = 600
Width == 600

\* Masses of the run, in units of 1/MassUnit: below 1/2, 1/2, 1, 2 and 5
RelaxMasses == {1, MassUnit \div 2, MassUnit, 2 * MassUnit, 5 * MassUnit}
\* End point of the rope built from (0, 0), and where the free endpoint is
\* set (pixels)
RelaxEnds == {<<4, 0>>, <<0, 5>>}
RelaxStarts == {<<1, 0>>, <<9, 0>>, <<-6, 0>>, <<0, 2>>, <<0, 13>>, <<0, -8>>}

InWindow(x) ==
    /\ VFin(x)
    /\ Abs(x[1]) <= Width * Unit
    /\ Abs(x[2]) <= Width * Unit

InitRelax ==
    /\ app = "rope"
    /\ points = 2
    /\ point1 = Px(<<0, 0>>)
    /\ point2 \in {Px(e) : e \in RelaxEnds}
    /\ \E m \in RelaxMasses, pin \in 1..2, s \in RelaxStarts :
          /\ (s[1] = 0) = (point2[1] = 0)        \* set on the rope's line
          /\ LET built == RopeInit(point1, point2, 2, 5, m, 1)
                 free == 3 - pin
                 at == VAdd(built.particles[pin].x, Px(s))
             IN  rope = <<[built EXCEPT !.particles =
                             RopeSetPosition(RopeSetFixed(@, pin), free, at)]>>
    /\ cloth = <<>>
    /\ dragIndex = <<>>
    /\ planets = <<>>
    /\ euler = TRUE
    /\ newPlanet = <<>>
    /\ crashed = FALSE
    /\ ticks = 0
    /\ mouse = 0
    /\ twin = <<>>
    /\ lastForces = <<>>
    /\ passes = 0

RelaxPass ==
    /\ passes < MaxPasses
    /\ \A i \in 1..2 : InWindow(rope[1].particles[i].x)
    /\ rope' = <<[rope[1] EXCEPT
                    !.particles = RopePass(@, rope[1].gap, rope[1].stiffness)]>>
    /\ passes' = passes + 1
    /\ UNCHANGED <<app, points, point1, point2, cloth, dragIndex, planets, euler,
                   newPlanet, crashed, ticks, mouse, twin, lastForces>>

SpecRelax == InitRelax /\ [][RelaxPass]_vars

(***************************************************************************)
(* Properties.                                                             *)
(***************************************************************************)
Zero == vec(0, 0)

RopeParticles(rp) == IF rp = <<>> THEN <<>> ELSE rp[1].particles
ClothGrid(cl) == IF cl = <<>> THEN <<>> ELSE cl[1].particles

\* The particles of the rope and of the cloth, as one set of records
AllParticles(rp, cl) ==
    {RopeParticles(rp)[i] : i \in 1..Len(RopeParticles(rp))}
    \cup UNION {{ClothGrid(cl)[i][j] : j \in 1..Len(ClothGrid(cl)[i])} :
                    i \in 1..Len(ClothGrid(cl))}

\* Every pinned particle of before is where it was in after
PinnedKept(rpB, clB, rpA, clA) ==
    /\ \A i \in 1..Len(RopeParticles(rpB)) :
          RopeParticles(rpB)[i].fixed =>
              RopeParticles(rpA)[i].x = RopeParticles(rpB)[i].x
    /\ \A i \in 1..Len(ClothGrid(clB)) : \A j \in 1..Len(ClothGrid(clB)[i]) :
          ClothGrid(clB)[i][j].fixed =>
              ClothGrid(clA)[i][j].x = ClothGrid(clB)[i][j].x

\* C1: a tick (gravity, integration, Jakobsen relaxation) leaves the position
\* of every pinned particle of the rope and of the cloth as it was.
C1_PinnedNeverMoved ==
    [][ticks' = ticks + 1 => PinnedKept(rope, cloth, rope', cloth')]_vars

\* A tick has run on a rope whose first particle was pinned where it was
\* built, and the second particle, free, has moved.
C1_Witness ==
    /\ app = "rope" /\ ticks > 0 /\ rope # <<>>
    /\ Len(rope[1].particles) = 2
    /\ rope[1].particles[1].fixed
    /\ rope[1].particles[1].x = point1
    /\ ~rope[1].particles[2].fixed
    /\ rope[1].particles[2].x # rope[1].particles[2].xPrev

\* A rope or cloth of at least 2 particles (a side), all at finite positions
WellBuilt(rp, cl) ==
    /\ rp # <<>> => Len(rp[1].particles) >= 2
    /\ cl # <<>> => Len(cl[1].particles) >= 2
    /\ \A p \in AllParticles(rp, cl) : VFin(p.x) /\ VFin(p.xPrev)

\* C2: the force on a pinned particle is discarded, so the force
\* accumulator of every particle (of a rope or cloth of at least 2 particles
\* a side at finite positions) is zero whenever a tick starts.
C2_ForceZeroAtTickStart ==
    WellBuilt(rope, cloth) => \A p \in AllParticles(rope, cloth) : p.f = Zero

\* C3: constructing a rope or a cloth with a particle count below 2 fails,
\* so every rope has at least 2 particles and every cloth at least 2 a side.
C3_CountBelowTwoRejected ==
    /\ rope # <<>> => Len(rope[1].particles) >= 2
    /\ cloth # <<>> => Len(cloth[1].particles) >= 2

AllFinite(rp, cl, ps) ==
    /\ \A p \in AllParticles(rp, cl) : VFin(p.x) /\ VFin(p.xPrev)
    /\ \A i \in 1..Len(ps) : VFin(ps[i].x) /\ VFin(ps[i].v)

\* C4: a constraint whose endpoints coincide and a pair of coincident planets
\* are skipped by the tick, so a tick taken from finite positions and
\* velocities leaves every position and velocity finite.
C4_TickKeepsFinite ==
    [][(ticks' = ticks + 1 /\ AllFinite(rope, cloth, planets))
          => AllFinite(rope', cloth', planets')]_vars

Min(a, b) == IF a <= b THEN a ELSE b
Max(a, b) == IF a >= b THEN a ELSE b

\* The cloth is as Cloth.__init__ built it: no tick and no mouse event since
FreshCloth == app = "cloth" /\ cloth # <<>> /\ ticks = 0 /\ mouse = 0

\* C6: a cloth of n >= 2 particles a side spans the bounding rectangle of
\* its two corner points, in whatever order the corners were given: its
\* first particle is the rectangle's least corner, its last the greatest.
C6_GridSpansBoundingRectangle ==
    (FreshCloth /\ Len(cloth[1].particles) >= 2) =>
        LET g == cloth[1].particles
            n == Len(g)
        IN  /\ g[1][1].x = vec(Min(point1[1], point2[1]), Min(point1[2], point2[2]))
            /\ g[n][n].x = vec(Max(point1[1], point2[1]), Max(point1[2], point2[2]))

\* No two particles joined by a constraint of the grid are at one point
NeighboursApart(g) ==
    /\ \A i \in 1..(Len(g) - 1) : \A j \in 1..Len(g) : g[i][j].x # g[i + 1][j].x
    /\ \A i \in 1..Len(g) : \A j \in 1..(Len(g) - 1) : g[i][j].x # g[i][j + 1].x

\* C9: for every constraint of a freshly built cloth, the rest length that
\* Cloth.jakobsen hands to relax_constraint is the distance at which the two
\* particles were placed, and so (where the placed particles are apart) the
\* relaxation leaves the fresh cloth as it is.
C9_RestLengthIsPlacedDistance ==
    (FreshCloth /\ Len(cloth[1].particles) >= 2) =>
        LET c == cloth[1]
            g == c.particles
        IN  /\ \A i \in 1..(Len(g) - 1) : \A j \in 1..Len(g) :
                  ClothVerticalGap(c.xGap, c.yGap) = distance(g[i][j].x, g[i + 1][j].x)
            /\ \A i \in 1..Len(g) : \A j \in 1..(Len(g) - 1) :
                  ClothHorizontalGap(c.xGap, c.yGap) = distance(g[i][j].x, g[i][j + 1].x)
            /\ NeighboursApart(g) =>
                  ClothJakobsen(g, c.xGap, c.yGap, c.stiffness) = g

\* Python's == on doubles and on vectors: false as soon as a NaN is involved
FEq(a, b) == ~IsNaN(a) /\ ~IsNaN(b) /\ a = b
VEq(a, b) == FEq(a[1], b[1]) /\ FEq(a[2], b[2])

\* C10: in every state, v * DT = x - xPrev for every planet, and the next
\* tick gives every planet the same new position in Euler and in Verlet mode.
C10_VelocityIsDisplacement ==
    /\ \A i \in 1..Len(planets) :
          VEq(VelTimesDT(planets[i].v), VSub(planets[i].x, planets[i].xPrev))
    /\ Resolvable(planets) =>
          \A i \in 1..Len(planets) :
              VEq(PlanetStep(planets, TRUE)[i].x, PlanetStep(planets, FALSE)[i].x)

\* C7: in the demo configuration stepped under Verlet, the forces the tick
\* accumulates on the two planets are equal and opposite, and the sum of the
\* two positions after every tick is the sum at the start.
C7_DemoForcesOppositeMidpointFixed ==
    (twin # <<>> /\ ticks > 0) =>
        /\ VAdd(lastForces[1], lastForces[2]) = Zero
        /\ VAdd(twin[1].x, twin[2].x) = VAdd(demo_config[1].x, demo_config[2].x)

\* The Verlet demo run has reached its last tick, under non-zero forces, with
\* both planets away from where they started.
C7_Witness ==
    /\ twin # <<>> /\ ticks = MaxDemoTicks
    /\ lastForces[1] # Zero
    /\ twin[1].x # demo_config[1].x
    /\ twin[2].x # demo_config[2].x

\* |E - E0| for the total energy E of the two planets and E0 of demo_config
EnergyDrift(ps) == Abs(FSub(PairEnergy(ps), PairEnergy(demo_config)))

\* C8: at the end of a long run of the demo configuration, the run stepped by
\* euler_update has drifted strictly further in total energy than the run
\* stepped by verlet_update, and the two runs are at different positions.
C8_EulerDriftsMoreThanVerlet ==
    (twin # <<>> /\ ticks = MaxDemoTicks) =>
        /\ EnergyDrift(planets) > EnergyDrift(twin)
        /\ \E i \in 1..Len(planets) : planets[i].x # twin[i].x

\* | distance - L | of the two particles of a rope record
ErrOf(r) == Abs(FSub(distance(r.particles[1].x, r.particles[2].x), r.gap))

\* The error below which a pass of the fixed-point model moves nothing
Tol == 2

\* The two-particle rope was built with a particle mass of at least 1
HeavyRope(r) == \A i \in 1..Len(r.particles) : r.particles[i].m >= MassUnit

\* From pass to pass the error does not grow, and the passes end within Tol
ErrorShrinks(before, after, n) ==
    /\ ErrOf(after) <= ErrOf(before)
    /\ n = MaxPasses => ErrOf(after) <= Tol

====
